---------------------------- MODULE Spec2Model ----------------------------
(***************************************************************************)
(* A model of the declarative reconciler's dynamic watch registry          *)
(* (watchAll.Notify, uniqueGroupVersionKind) and of its object transforms  *)
(* (applyImageRegistry, transformApplication,                              *)
(* TransformApplicationFromStatus), and of the reconciler options that     *)
(* build reconcilerParams.                                                 *)
(*                                                                         *)
(* Strings that the code splits, concatenates or orders are sequences of   *)
(* code points (47 is '/'); strings that are only compared for equality    *)
(* are TLA+ strings.                                                       *)
(***************************************************************************)
EXTENDS Integers, Sequences, FiniteSets, TLC

VARIABLES
    \* ---- the watch registry (watchAll) and the DynamicWatch behind it
    registered,   \* watchAll.registered: the set of keys of the map
    watches,      \* DynamicWatch: the (trigger, target) pairs of successful Adds
    pc,           \* per owner: where its Notify call stands
    call,         \* per owner: the locals of its current (or last) Notify call
    addCount,     \* per kind: how many times Add was called with it
    addOk,        \* per kind: how many of those calls succeeded
    seen,         \* the kinds of every object set ever passed to Notify
    notifies,     \* how many Notify calls were started
    doneFor,      \* the (owner, kind) pairs a completed Notify call has covered
    crashed,      \* the runtime stopped the process on an unsynchronised map access
    event,        \* the last watch event delivered and the requests it raised
    \* ---- the object transforms
    manifest,     \* the object set (manifest.Objects.Items), mutated in place
    snap,         \* the object set as it was before the current transform call
    tcall,        \* the transform call being applied: function and arguments
    ret,          \* what the last application of it returned
    runs,         \* how many times in succession it has been applied
    unique,       \* the last value uniqueGroupVersionKind returned
    \* ---- the reconciler options
    params,       \* the reconcilerParams the options have built so far
    applied       \* the options applied so far, in order

vars == <<registered, watches, pc, call, addCount, addOk, seen, notifies,
          doneFor, crashed, event,
          manifest, snap, tcall, ret, runs, unique,
          params, applied>>

regVars == <<registered, watches, pc, call, addCount, addOk, seen, notifies,
             doneFor, crashed, event>>

trVars == <<manifest, snap, tcall, ret, runs, unique>>

optVars == <<params, applied>>

-----------------------------------------------------------------------------
(* Bounds *)

\* the largest number of objects in an object set
MaxObjs == 3

\* the largest number of objects in an object set passed to Notify
MaxNotifyObjs == 2

\* the largest number of Notify calls in a behaviour
MaxNotify == 3

\* the largest number of Notify calls in a behaviour where calls overlap
MaxConcNotify == 2

\* the largest number of Add calls that fail in a behaviour
MaxAddFail == 2

\* the largest number of options given to the reconciler
MaxOptions == 4

-----------------------------------------------------------------------------
(* Strings *)

Slash == <<47>>

S_KindEq == <<44, 32, 75, 105, 110, 100, 61>>                   \* ", Kind="
S_appk8s == <<97, 112, 112, 46, 107, 56, 115, 46, 105, 111>>    \* "app.k8s.io"
S_apps == <<97, 112, 112, 115>>                                 \* "apps"
S_batch == <<98, 97, 116, 99, 104>>                             \* "batch"
S_v1 == <<118, 49>>                                             \* "v1"
S_v1beta1 == <<118, 49, 98, 101, 116, 97, 49>>                  \* "v1beta1"
S_Application == <<65, 112, 112, 108, 105, 99, 97, 116, 105, 111, 110>>
S_Deployment == <<68, 101, 112, 108, 111, 121, 109, 101, 110, 116>>
S_DaemonSet == <<68, 97, 101, 109, 111, 110, 83, 101, 116>>
S_StatefulSet == <<83, 116, 97, 116, 101, 102, 117, 108, 83, 101, 116>>
S_Job == <<74, 111, 98>>
S_CronJob == <<67, 114, 111, 110, 74, 111, 98>>
S_ReplicaSet == <<82, 101, 112, 108, 105, 99, 97, 83, 101, 116>>
\* "myrepo/foo/bar:v1"
S_img_bar == <<109, 121, 114, 101, 112, 111, 47, 102, 111, 111, 47, 98, 97, 114, 58, 118, 49>>
S_img_nginx == <<110, 103, 105, 110, 120>>                      \* "nginx"
S_img_ab == <<97, 47, 98>>                                      \* "a/b"
\* "registry.example.com"
S_registry == <<114, 101, 103, 105, 115, 116, 114, 121, 46, 101, 120, 97, 109, 112, 108, 101, 46, 99, 111, 109>>
\* "registry.example.com/bar:v1"
S_registry_bar == <<114, 101, 103, 105, 115, 116, 114, 121, 46, 101, 120, 97, 109, 112, 108, 101, 46, 99, 111, 109, 47, 98, 97, 114, 58, 118, 49>>
S_reg_rx == <<114, 47, 120>>                                    \* "r/x"

\* a < b on Go strings: byte-wise lexicographic order
StrLess(a, b) ==
    \E i \in 1..Len(b) :
        /\ i - 1 <= Len(a)
        /\ \A j \in 1..(i - 1) : a[j] = b[j]
        /\ (i > Len(a) \/ a[i] < b[i])

\* strings.Split(s, sep) for a one-character sep
RECURSIVE Split(_, _)
Split(s, sep) ==
    IF \A i \in 1..Len(s) : s[i] # sep[1]
    THEN <<s>>
    ELSE LET i == CHOOSE k \in 1..Len(s) :
                      s[k] = sep[1] /\ \A j \in 1..(k - 1) : s[j] # sep[1]
         IN  <<SubSeq(s, 1, i - 1)>> \o Split(SubSeq(s, i + 1, Len(s)), sep)

\* the orders in which a range over a map with key set S can yield its keys
RECURSIVE Perms(_)
Perms(S) ==
    IF S = {} THEN {<<>>}
    ELSE UNION {{<<x>> \o q : q \in Perms(S \ {x})} : x \in S}

\* the sequences over S with no element twice, of length at most n
DistinctSeqs(S, n) == UNION {Perms(T) : T \in {U \in SUBSET S : Cardinality(U) <= n}}

Range(q) == {q[i] : i \in 1..Len(q)}

-----------------------------------------------------------------------------
(* GroupVersionKind *)

GVK(g, v, k) == [Group |-> g, Version |-> v, Kind |-> k]

\* schema.GroupVersionKind.String(): Group + "/" + Version + ", Kind=" + Kind
GVKString(gvk) == gvk.Group \o Slash \o gvk.Version \o S_KindEq \o gvk.Kind

\* the less function handed to sort.Slice
SliceLess(u, i, j) == StrLess(GVKString(u[i]), GVKString(u[i]))

Swap(u, i, j) == [u EXCEPT ![i] = u[j], ![j] = u[i]]

\* sort.Slice on a slice of fewer than 12 elements: insertion sort.
\* InsertDown is the inner loop, from position j down.
RECURSIVE InsertDown(_, _)
InsertDown(u, j) ==
    IF j > 1 /\ SliceLess(u, j, j - 1)
    THEN InsertDown(Swap(u, j, j - 1), j - 1)
    ELSE u

RECURSIVE InsertionSortFrom(_, _)
InsertionSortFrom(u, i) ==
    IF i > Len(u) THEN u ELSE InsertionSortFrom(InsertDown(u, i), i + 1)

SortSlice(u) == InsertionSortFrom(u, 2)

\* o.GroupVersionKind() of the items
KindsOf(objs) == {GVK(objs[i].Group, objs[i].Version, objs[i].Kind) : i \in 1..Len(objs)}

\* uniqueGroupVersionKind(objects): the values it can return, one for each
\* order in which the range over the map of kinds yields its keys
UniqueGroupVersionKind(objs) == {SortSlice(q) : q \in Perms(KindsOf(objs))}

-----------------------------------------------------------------------------
(* Owners (DeclarativeObject) and manifest objects *)

\* the owners: two addon objects (addonsv1alpha1.CommonObject), one healthy and
\* one not, and one DeclarativeObject that is no CommonObject
OwnerObjs ==
    << [name |-> "dash-a", namespace |-> "ns1", common |-> TRUE,
        healthy |-> TRUE, version |-> "1.0"],
       [name |-> "dash-b", namespace |-> "ns2", common |-> TRUE,
        healthy |-> FALSE, version |-> "2.0"],
       [name |-> "plain", namespace |-> "ns1", common |-> FALSE,
        healthy |-> FALSE, version |-> "0.1"] >>

Owners == 1..Len(OwnerObjs)

\* metav1.ObjectMeta{Name: dest.GetName(), Namespace: dest.GetNamespace()}
ObjectMeta(o) == [Name |-> OwnerObjs[o].name, Namespace |-> OwnerObjs[o].namespace]

\* a manifest.Object: its identity and the fields the transforms read or write.
\* selector and componentGroupKinds are <<>> while unset.
Obj(g, v, k, n, images, secrets) ==
    [Group |-> g, Version |-> v, Kind |-> k, Name |-> n,
     containers |-> images, imagePullSecrets |-> secrets,
     selector |-> <<>>, componentGroupKinds |-> <<>>,
     descriptorVersion |-> "", assemblyPhase |-> ""]

AppObj(n) ==
    [Obj(S_appk8s, S_v1beta1, S_Application, n, <<>>, <<>>)
        EXCEPT !.selector = <<[matchLabels |-> {<<"app", "stale">>}]>>,
               !.descriptorVersion = "0.0",
               !.assemblyPhase = "Failed"]

Templates ==
    << Obj(S_apps, S_v1, S_Deployment, "web", <<S_img_bar, S_img_nginx>>,
           <<[name |-> "old"], [name |-> "older"]>>),
       AppObj("app"),
       Obj(S_apps, S_v1, S_ReplicaSet, "rs", <<S_img_bar>>, <<>>),
       Obj(S_apps, S_v1beta1, S_Deployment, "web-old", <<S_img_ab>>, <<>>),
       AppObj("app2"),
       Obj(S_batch, S_v1beta1, S_CronJob, "cron", <<S_img_nginx>>, <<>>),
       Obj(S_apps, S_v1, S_DaemonSet, "agent", <<S_img_ab>>, <<>>),
       Obj(S_apps, S_v1, S_StatefulSet, "db", <<S_img_bar>>, <<>>),
       Obj(S_batch, S_v1, S_Job, "once", <<S_img_ab>>, <<>>) >>

\* the items of Templates at the indices I, in their order
RECURSIVE Pick(_, _)
Pick(I, from) ==
    IF from > Len(Templates) THEN <<>>
    ELSE IF from \in I THEN <<Templates[from]>> \o Pick(I, from + 1)
    ELSE Pick(I, from + 1)

Reverse(q) == [i \in 1..Len(q) |-> q[Len(q) + 1 - i]]

\* the object sets a manifest parses to here: up to MaxObjs of the objects,
\* each at most once, in the order of Templates or in the reverse order
ObjectSets ==
    LET picks == {Pick(I, 1) : I \in {J \in SUBSET (1..Len(Templates)) :
                                         Cardinality(J) <= MaxObjs}}
    IN  picks \cup {Reverse(q) : q \in picks}

\* the object sets the registry is notified of, over three of the kinds
NotifiedSets == DistinctSeqs({Templates[i] : i \in {1, 2, 4}}, MaxNotifyObjs)

NotifiedKinds == KindsOf(<<Templates[1], Templates[2], Templates[4]>>)

-----------------------------------------------------------------------------
(* The reconciler options: reconcilerOption, a function from reconcilerParams *)
(* to reconcilerParams. An option WithX(args) is the operator WithX(args, p)  *)
(* on the params p it is applied to. Functions and interface values          *)
(* (operations, owner selectors, label makers, status, manifest             *)
(* controllers) are named by strings; "nil" is the nil value. An object      *)
(* transform is named by its function and the label maker bound in it.       *)

\* reconcilerParams{}: the zero value of the struct
ZeroParams ==
    [rawManifestOperations |-> <<>>, groupVersionKind |-> "nil",
     objectTransformations |-> <<>>, manifestController |-> "nil",
     prune |-> FALSE, preserveNamespace |-> FALSE,
     sink |-> "nil", ownerFn |-> "nil", labelMaker |-> "nil", status |-> "nil"]

WithRawManifestOperation(operations, p) ==
    [p EXCEPT !.rawManifestOperations = @ \o operations]

\* mutant: the operations given last replace the chain
WithObjectTransformReplace(operations, p) ==
    [p EXCEPT !.objectTransformations = operations]

WithObjectTransform(operations, p) ==
    [p EXCEPT !.objectTransformations = @ \o operations]

WithGroupVersionKind(gvk, p) == [p EXCEPT !.groupVersionKind = gvk]

WithManifestController(mc, p) == [p EXCEPT !.manifestController = mc]

WithApplyPrune(p) == [p EXCEPT !.prune = TRUE]

WithOwner(ownerFn, p) == [p EXCEPT !.ownerFn = ownerFn]

WithLabels(labelMaker, p) == [p EXCEPT !.labelMaker = labelMaker]

WithStatus(status, p) == [p EXCEPT !.status = status]

WithPreserveNamespace(p) == [p EXCEPT !.preserveNamespace = TRUE]

\* an ObjectTransform that binds no label maker
Transform(fn) == [fn |-> fn, labelMaker |-> "nil"]

\* the closure WithManagedApplication appends: transformApplication with the
\* label maker bound
ManagedApplicationTransform(labelMaker) ==
    [fn |-> "transformApplication", labelMaker |-> labelMaker]

WithManagedApplication(labelMaker, p) ==
    [p EXCEPT !.objectTransformations =
                 @ \o <<ManagedApplicationTransform(labelMaker)>>]

\* an option value: the constructor called and its argument
Option(name, arg) == [name |-> name, arg |-> arg]

\* the options an embedder gives the reconciler
Options ==
    {Option("WithRawManifestOperation", ops) :
        ops \in {<<>>, <<"rawA">>, <<"rawA", "rawB">>}}
    \cup {Option("WithObjectTransform", ops) :
        ops \in {<<Transform("AddLabels")>>,
                 <<Transform("TransformApplicationFromStatus"), Transform("AddLabels")>>}}
    \cup {Option("WithGroupVersionKind", gvk) : gvk \in {"Dashboard", "Guestbook"}}
    \cup {Option("WithManifestController", mc) : mc \in {"mcA", "mcB"}}
    \cup {Option("WithApplyPrune", "")}
    \cup {Option("WithOwner", "SourceAsOwner")}
    \cup {Option("WithLabels", lm) : lm \in {"srcLabels", "otherLabels"}}
    \cup {Option("WithStatus", "basic")}
    \cup {Option("WithPreserveNamespace", "")}
    \cup {Option("WithManagedApplication", lm) : lm \in {"srcLabels", "otherLabels"}}

\* opt(p): the option applied to the params
ApplyOption(opt, p) ==
    CASE opt.name = "WithRawManifestOperation" -> WithRawManifestOperation(opt.arg, p)
      [] opt.name = "WithObjectTransform" -> WithObjectTransform(opt.arg, p)
      [] opt.name = "WithGroupVersionKind" -> WithGroupVersionKind(opt.arg, p)
      [] opt.name = "WithManifestController" -> WithManifestController(opt.arg, p)
      [] opt.name = "WithApplyPrune" -> WithApplyPrune(p)
      [] opt.name = "WithOwner" -> WithOwner(opt.arg, p)
      [] opt.name = "WithLabels" -> WithLabels(opt.arg, p)
      [] opt.name = "WithStatus" -> WithStatus(opt.arg, p)
      [] opt.name = "WithPreserveNamespace" -> WithPreserveNamespace(p)
      [] opt.name = "WithManagedApplication" -> WithManagedApplication(opt.arg, p)

\* no option applied yet
OptIdle ==
    /\ params = ZeroParams
    /\ applied = <<>>

\* the next option of the sequence is applied: params = opt(params)
FoldOption(opt) ==
    /\ Len(applied) < MaxOptions
    /\ params' = ApplyOption(opt, params)
    /\ applied' = Append(applied, opt)

NextOpt == \E opt \in Options : FoldOption(opt) /\ UNCHANGED <<regVars, trVars>>

-----------------------------------------------------------------------------
(* The watch registry: watchAll.Notify *)

\* the locals of a Notify call; regAtCall and failedAtCall record, for the
\* properties, the registered set and the kinds whose Add had only failed so
\* far, as they were when the call began
NoCall == [kinds |-> {}, unique |-> <<>>, i |-> 1, issued |-> <<>>, failed |-> {},
           regAtCall |-> {}, failedAtCall |-> {}, ret |-> "none",
           target |-> [Name |-> "", Namespace |-> ""]]

\* mutant: the lookup never finds the kind
IsRegisteredNever(gvk) == FALSE

\* _, ok := w.registered[gvk]
IsRegistered(gvk) == gvk \in registered

\* mutant: the map is rebuilt around the new kind
StoreRegisteredOnly(reg, gvk) == {gvk}

\* mutant: the map is keyed by group and kind, every version stored at once
StoreRegisteredAnyVersion(reg, gvk) ==
    reg \cup {k \in NotifiedKinds : k.Group = gvk.Group /\ k.Kind = gvk.Kind}

\* w.registered[gvk] = struct{}{}
StoreRegistered(reg, gvk) == reg \cup {gvk}

\* mutant: the error branch leaves the loop
AddErrorBreak(c) == [c EXCEPT !.i = Len(c.unique) + 1]

\* the error branch of the loop body: log, continue
AddErrorContinue(c) == [c EXCEPT !.i = c.i + 1]

\* how many Add calls have failed so far
RECURSIVE FailsIn(_)
FailsIn(K) ==
    IF K = {} THEN 0
    ELSE LET k == CHOOSE x \in K : TRUE
         IN  (addCount[k] - addOk[k]) + FailsIn(K \ {k})

\* The registry after WatchAll built it: make(map[GroupVersionKind]struct{})
RegInit ==
    /\ registered = {}
    /\ watches = {}
    /\ pc = [o \in Owners |-> "idle"]
    /\ call = [o \in Owners |-> NoCall]
    /\ addCount = [k \in NotifiedKinds |-> 0]
    /\ addOk = [k \in NotifiedKinds |-> 0]
    /\ seen = {}
    /\ notifies = 0
    /\ doneFor = {}
    /\ crashed = FALSE
    /\ event = <<>>

\* Notify is entered: notify, filter and the slice of unique kinds are computed
NotifyCall(o, objs) ==
    /\ ~crashed
    /\ pc[o] = "idle"
    /\ notifies < MaxNotify
    /\ \E u \in UniqueGroupVersionKind(objs) :
          call' = [call EXCEPT ![o] =
                      [kinds |-> KindsOf(objs), unique |-> u, i |-> 1,
                       issued |-> <<>>, failed |-> {}, regAtCall |-> registered,
                       failedAtCall |->
                           {k \in NotifiedKinds : addCount[k] > 0 /\ addOk[k] = 0},
                       ret |-> "none", target |-> ObjectMeta(o)]]
    /\ pc' = [pc EXCEPT ![o] = "loop"]
    /\ seen' = seen \cup KindsOf(objs)
    /\ notifies' = notifies + 1
    /\ UNCHANGED <<registered, watches, addCount, addOk, doneFor, crashed, event>>

\* the head of the loop body: the kind is looked up in the registered map
NotifyLookup(o) ==
    /\ ~crashed
    /\ pc[o] = "loop"
    /\ call[o].i <= Len(call[o].unique)
    /\ IF IsRegistered(call[o].unique[call[o].i])
       THEN /\ call' = [call EXCEPT ![o].i = @ + 1]
            /\ pc' = pc
       ELSE /\ pc' = [pc EXCEPT ![o] = "add"]
            /\ call' = call
    /\ UNCHANGED <<registered, watches, addCount, addOk, seen, notifies,
                   doneFor, crashed, event>>

\* w.dw.Add(gvk, filter, notify) returns nil: the watch exists from now on
NotifyAddOk(o) ==
    /\ ~crashed
    /\ pc[o] = "add"
    /\ LET gvk == call[o].unique[call[o].i]
       IN  /\ watches' = watches \cup {[trigger |-> gvk, target |-> call[o].target]}
           /\ addCount' = [addCount EXCEPT ![gvk] = @ + 1]
           /\ addOk' = [addOk EXCEPT ![gvk] = @ + 1]
           /\ call' = [call EXCEPT ![o].issued = Append(@, gvk)]
    /\ pc' = [pc EXCEPT ![o] = "store"]
    /\ UNCHANGED <<registered, seen, notifies, doneFor, crashed, event>>

\* w.dw.Add(gvk, filter, notify) returns an error: logged, the loop continues
NotifyAddFail(o) ==
    /\ ~crashed
    /\ pc[o] = "add"
    /\ FailsIn(NotifiedKinds) < MaxAddFail
    /\ LET gvk == call[o].unique[call[o].i]
       IN  /\ addCount' = [addCount EXCEPT ![gvk] = @ + 1]
           /\ call' = [call EXCEPT ![o] =
                          AddErrorContinue([@ EXCEPT !.issued = Append(@, gvk),
                                                     !.failed = @ \cup {gvk}])]
    /\ pc' = [pc EXCEPT ![o] = "loop"]
    /\ UNCHANGED <<registered, watches, addOk, seen, notifies, doneFor,
                   crashed, event>>

\* the kind is written to the registered map
NotifyStore(o) ==
    /\ ~crashed
    /\ pc[o] = "store"
    /\ registered' = StoreRegistered(registered, call[o].unique[call[o].i])
    /\ call' = [call EXCEPT ![o].i = @ + 1]
    /\ pc' = [pc EXCEPT ![o] = "loop"]
    /\ UNCHANGED <<watches, addCount, addOk, seen, notifies, doneFor,
                   crashed, event>>

\* the loop is over: return nil. The locals are gone; the return value stays.
NotifyReturn(o) ==
    /\ ~crashed
    /\ pc[o] = "loop"
    /\ call[o].i > Len(call[o].unique)
    /\ call' = [call EXCEPT ![o] = [NoCall EXCEPT !.ret = "nil"]]
    /\ pc' = [pc EXCEPT ![o] = "idle"]
    /\ doneFor' = doneFor \cup {<<o, k>> : k \in call[o].kinds}
    /\ UNCHANGED <<registered, watches, addCount, addOk, seen, notifies,
                   crashed, event>>

\* The map is written by one goroutine while another is inside Notify, with no
\* lock between them: the Go runtime may detect it and stop the process
\* ("fatal error: concurrent map writes", "concurrent map read and map write").
\* The other outcome, the accesses taking effect one after the other, is
\* NotifyStore.
MapRaceFatal(o) ==
    /\ ~crashed
    /\ pc[o] = "store"
    /\ \E p \in Owners \ {o} : pc[p] \in {"loop", "store"}
    /\ crashed' = TRUE
    /\ UNCHANGED <<registered, watches, pc, call, addCount, addOk, seen, notifies,
                   doneFor, event>>

\* DynamicWatch delivers a change of an object of kind k that was materialized
\* for owner o: every watch added for k (its filter, an empty label selector,
\* selects every object of the kind) raises a request on its target.
WatchEvent(o, k) ==
    /\ ~crashed
    /\ <<o, k>> \in doneFor
    /\ event' = <<[kind |-> k, owner |-> ObjectMeta(o),
                   requests |-> {w.target : w \in {x \in watches : x.trigger = k}}]>>
    /\ UNCHANGED <<registered, watches, pc, call, addCount, addOk, seen, notifies,
                   doneFor, crashed>>

\* the owners whose reconcile ticks reach the registry
RegOwners == {1, 2}

NoneRunning == \A p \in Owners : pc[p] = "idle"

TrIdle ==
    /\ manifest = <<>>
    /\ snap = <<>>
    /\ tcall = [fn |-> "none"]
    /\ ret = "none"
    /\ runs = 0
    /\ unique = <<>>

Init == RegInit /\ TrIdle /\ OptIdle

\* Notify calls that do not overlap: a call starts when no other is running
Next ==
    \/ \E o \in RegOwners, objs \in NotifiedSets :
          NoneRunning /\ NotifyCall(o, objs) /\ UNCHANGED <<trVars, optVars>>
    \/ \E o \in RegOwners : NotifyLookup(o) /\ UNCHANGED <<trVars, optVars>>
    \/ \E o \in RegOwners : NotifyAddOk(o) /\ UNCHANGED <<trVars, optVars>>
    \/ \E o \in RegOwners : NotifyAddFail(o) /\ UNCHANGED <<trVars, optVars>>
    \/ \E o \in RegOwners : NotifyStore(o) /\ UNCHANGED <<trVars, optVars>>
    \/ \E o \in RegOwners : NotifyReturn(o) /\ UNCHANGED <<trVars, optVars>>

Spec == Init /\ [][Next]_vars

\* Notify calls that do not overlap, and the watch events between them
NextWatch ==
    \/ Next
    \/ \E o \in RegOwners, k \in NotifiedKinds : WatchEvent(o, k) /\ UNCHANGED <<trVars, optVars>>

SpecWatch == Init /\ [][NextWatch]_vars

\* Notify calls of different owners run concurrently
NextConc ==
    \/ \E o \in RegOwners, objs \in NotifiedSets :
          notifies < MaxConcNotify /\ NotifyCall(o, objs) /\ UNCHANGED <<trVars, optVars>>
    \/ \E o \in RegOwners : NotifyLookup(o) /\ UNCHANGED <<trVars, optVars>>
    \/ \E o \in RegOwners : NotifyAddOk(o) /\ UNCHANGED <<trVars, optVars>>
    \/ \E o \in RegOwners : NotifyAddFail(o) /\ UNCHANGED <<trVars, optVars>>
    \/ \E o \in RegOwners : NotifyStore(o) /\ UNCHANGED <<trVars, optVars>>
    \/ \E o \in RegOwners : NotifyReturn(o) /\ UNCHANGED <<trVars, optVars>>
    \/ \E o \in RegOwners : MapRaceFatal(o) /\ UNCHANGED <<trVars, optVars>>

SpecConc == Init /\ [][NextConc]_vars

-----------------------------------------------------------------------------
(* Properties of the watch registry *)

\* the loop of o's Notify call is over and the call is about to return
LoopOver(o) == pc[o] = "loop" /\ call[o].i > Len(call[o].unique)

\* how many times k was passed to Add in a call
TimesIssued(q, k) == Cardinality({i \in 1..Len(q) : q[i] = k})

\* C1: under concurrent Notify calls of different owners no kind is passed to
\* a successful Add more than once, and once every call has returned with no
\* Add having failed the registered set is the set of kinds ever notified.
C1_NoDoubleRegistration ==
    /\ \A k \in NotifiedKinds : addOk[k] <= 1
    /\ (NoneRunning /\ ~crashed /\ FailsIn(NotifiedKinds) = 0)
          => Cardinality(registered) = Cardinality(seen)

\* C2: over Notify calls that do not overlap and whose Adds all succeed, Add
\* is called exactly once for each distinct kind of the notified object sets,
\* and a call whose kinds were all registered when it began issues no Add.
C2_AddOncePerKind ==
    /\ FailsIn(NotifiedKinds) = 0 =>
          /\ \A k \in NotifiedKinds : addCount[k] <= 1
          /\ \A k \in NotifiedKinds : addCount[k] = 1 => k \in seen
          /\ NoneRunning => \A k \in seen : addCount[k] = 1
    /\ \A o \in Owners :
          (pc[o] # "idle" /\ call[o].kinds \subseteq call[o].regAtCall)
             => call[o].issued = <<>>

\* three calls of both owners, the last one for a kind notified before: two
\* kinds, two Adds
C2_Witness ==
    /\ FailsIn(NotifiedKinds) = 0
    /\ notifies >= 3
    /\ Cardinality(seen) = 2
    /\ \A k \in seen : addCount[k] = 1
    /\ \E w1, w2 \in watches : w1.target # w2.target
    /\ \E o \in Owners :
          /\ LoopOver(o)
          /\ call[o].kinds # {}
          /\ call[o].kinds \subseteq call[o].regAtCall
          /\ call[o].issued = <<>>

\* C3: a kind whose Add fails is not put in the registered set and is passed
\* to Add once in that call; the call goes on to the remaining kinds (every
\* kind of its object set that was not registered is passed to Add) and
\* returns nil; a later call whose object set has a kind whose Add had failed
\* passes it to Add again.
C3_FailedAddRetried ==
    \A o \in Owners :
        /\ call[o].ret \in {"none", "nil"}
        /\ pc[o] # "idle" =>
              /\ \A k \in call[o].failed :
                    k \notin registered /\ TimesIssued(call[o].issued, k) = 1
              /\ LoopOver(o) =>
                    /\ \A k \in call[o].kinds \ call[o].regAtCall :
                          k \in Range(call[o].issued)
                    /\ \A k \in call[o].kinds \cap call[o].failedAtCall :
                          k \in Range(call[o].issued)

\* a call of two kinds: the first one's Add fails, as it had in an earlier
\* call, and the second one is still passed to Add
C3_Witness ==
    \E o \in Owners :
        /\ LoopOver(o)
        /\ Len(call[o].issued) = 2
        /\ call[o].issued[1] \in call[o].failed
        /\ call[o].issued[1] \in call[o].failedAtCall
        /\ call[o].issued[2] \in registered

\* C4: no step removes a kind from the registered set.
C4_RegisteredMonotonic == [][registered \subseteq registered']_vars

\* a call whose object set lacks a registered kind, and one of whose Adds failed
C4_Witness ==
    \E o \in Owners :
        /\ LoopOver(o)
        /\ call[o].failed # {}
        /\ \E k \in registered : k \notin call[o].kinds

\* C5: a change of an object of kind K materialized for owner O, whose Notify
\* completed for an object set with K, raises a reconcile request on O: O's
\* name and namespace are among the targets of the requests the event raises
\* (stated for the runs in which no Add failed, so that a watch on K exists).
C5_EventReachesOwner ==
    (event # <<>> /\ FailsIn(NotifiedKinds) = 0)
        => event[1].owner \in event[1].requests

\* C14: a kind is in the registered set only if an earlier Add for exactly
\* that kind returned nil; every kind a Notify call passes to Add is the kind
\* of an object of that call's object set; and the set is empty in the
\* registry WatchAll returns, before any Notify call.
C14_RegisteredOnlyAfterAdd ==
    /\ \A k \in registered : k \in NotifiedKinds /\ addOk[k] >= 1
    /\ \A o \in Owners :
          /\ Range(call[o].issued) \subseteq call[o].kinds
          /\ pc[o] \in {"add", "store"} => call[o].unique[call[o].i] \in call[o].kinds
    /\ notifies = 0 => registered = {}

\* a later call ends with one version of Deployment registered by its Add and
\* the other version not registered, its Add having failed
C14_Witness ==
    /\ notifies >= 2
    /\ \E o \in Owners :
          /\ LoopOver(o)
          /\ \E k \in Range(call[o].issued) :
                /\ k \in registered
                /\ addOk[k] = 1
                /\ \E j \in NotifiedKinds \ registered :
                      /\ j.Group = k.Group /\ j.Kind = k.Kind
                      /\ addCount[j] >= 1

-----------------------------------------------------------------------------
(* The object transforms *)

Registries == {<<>>, S_registry, S_reg_rx}

Secrets == {"", "regcred"}

\* labelMaker(ctx, instance): a fixed set of labels for the owner
LabelMaker(o) == {<<"addon", OwnerObjs[o].name>>, <<"namespace", OwnerObjs[o].namespace>>}

\* mutant: the image keeps its whole path behind the registry
ApplyPrivateRegistryKeepPath(registry, image) == registry \o Slash \o image

\* applyPrivateRegistryToContainer(registry), on a container's image
ApplyPrivateRegistryToContainer(registry, image) ==
    LET parts == Split(image, Slash)
    IN  registry \o Slash \o parts[Len(parts)]

\* mutant: the reference is added to the list that is there
ApplyImagePullSecretAppend(secret, podSecrets) == Append(podSecrets, [name |-> secret])

\* applyImagePullSecret(secret), on a pod spec's imagePullSecrets
ApplyImagePullSecret(secret, podSecrets) == <<[name |-> secret]>>

\* manifest.Object.MutateContainers(fn): fn on every container of the object;
\* fn is given as a function on the images it meets
MutateContainers(obj, fn) ==
    [obj EXCEPT !.containers = [c \in 1..Len(obj.containers) |-> fn[obj.containers[c]]]]

\* manifest.Object.MutatePodSpec(fn): fn on the object's pod spec
MutatePodSpec(obj, fn) ==
    [obj EXCEPT !.imagePullSecrets = fn[obj.imagePullSecrets]]

\* the kinds applyImageRegistry acts on
IsWorkloadKind(kind) ==
    \/ kind = S_Deployment
    \/ kind = S_DaemonSet
    \/ kind = S_StatefulSet
    \/ kind = S_Job
    \/ kind = S_CronJob

\* the body of applyImageRegistry's loop, on one item
ImageRegistryItem(obj, registry, secret) ==
    IF IsWorkloadKind(obj.Kind)
    THEN LET o1 == IF registry # <<>>
                   THEN MutateContainers(obj,
                            [img \in Range(obj.containers) |->
                                ApplyPrivateRegistryToContainer(registry, img)])
                   ELSE obj
         IN  IF secret # ""
             THEN MutatePodSpec(o1,
                      [ps \in {o1.imagePullSecrets} |-> ApplyImagePullSecret(secret, ps)])
             ELSE o1
    ELSE obj

\* applyImageRegistry(ctx, operatorObject, manifest, registry, secret)
ApplyImageRegistry(registry, secret) ==
    LET c == [fn |-> "applyImageRegistry", registry |-> registry, secret |-> secret]
    IN  /\ runs = 0 \/ (runs = 1 /\ tcall = c)
        /\ tcall' = c
        /\ manifest' =
              IF registry = <<>> /\ secret = ""
              THEN manifest
              ELSE [i \in 1..Len(manifest) |->
                       ImageRegistryItem(manifest[i], registry, secret)]
        /\ ret' = "nil"
        /\ runs' = runs + 1
        /\ UNCHANGED <<snap, unique>>

IsApplication(obj) == obj.Group = S_appk8s /\ obj.Kind = S_Application

\* mutant: the last Application of the set is taken, however many there are
FindApplicationLast(objs) ==
    IF \E i \in 1..Len(objs) : IsApplication(objs[i])
    THEN CHOOSE i \in 1..Len(objs) :
            IsApplication(objs[i]) /\ \A j \in (i + 1)..Len(objs) : ~IsApplication(objs[j])
    ELSE 0

\* the search both Application transforms begin with: the index of the one
\* app.k8s.io/Application item, 0 when there is none, -1 when there are several
FindApplication(objs) ==
    LET apps == {i \in 1..Len(objs) : IsApplication(objs[i])}
    IN  IF apps = {} THEN 0
        ELSE IF Cardinality(apps) > 1 THEN -1
        ELSE CHOOSE i \in apps : TRUE

\* mutant: the Application's assembly phase is reset as well
SetSelectorAndKindsAndPhase(app, labels, kinds) ==
    [app EXCEPT !.selector = <<[matchLabels |-> labels]>>,
                !.componentGroupKinds = kinds,
                !.assemblyPhase = "Pending"]

\* app.SetNestedFieldNoCopy(metav1.LabelSelector{MatchLabels: ...}, "spec", "selector")
\* app.SetNestedFieldNoCopy(uniqueGroupVersionKind(objects), "spec", "componentGroupKinds")
SetSelectorAndKinds(app, labels, kinds) ==
    [app EXCEPT !.selector = <<[matchLabels |-> labels]>>,
                !.componentGroupKinds = kinds]

\* transformApplication(ctx, instance, objects, labelMaker)
TransformApplication(o) ==
    LET c == [fn |-> "transformApplication", owner |-> o]
        app == FindApplication(manifest)
    IN  /\ runs = 0 \/ (runs = 1 /\ tcall = c)
        /\ tcall' = c
        /\ IF app > 0
           THEN \E u \in UniqueGroupVersionKind(manifest) :
                   manifest' = [manifest EXCEPT
                       ![app] = SetSelectorAndKinds(@, LabelMaker(o), u)]
           ELSE manifest' = manifest
        /\ ret' = "nil"
        /\ runs' = runs + 1
        /\ UNCHANGED <<snap, unique>>

\* mutant: an unhealthy owner marks the Application as failed
AssemblyPhaseFailed(o) == IF OwnerObjs[o].healthy THEN "Succeeded" ELSE "Failed"

\* assemblyPhase := Pending; if addonObject.GetCommonStatus().Healthy: Succeeded
AssemblyPhase(o) == IF OwnerObjs[o].healthy THEN "Succeeded" ELSE "Pending"

\* addon.TransformApplicationFromStatus(ctx, instance, objects)
TransformApplicationFromStatus(o) ==
    LET c == [fn |-> "TransformApplicationFromStatus", owner |-> o]
        app == FindApplication(manifest)
        assemblyPhase == AssemblyPhase(o)
    IN  /\ runs = 0 \/ (runs = 1 /\ tcall = c)
        /\ tcall' = c
        /\ IF ~OwnerObjs[o].common
           THEN manifest' = manifest /\ ret' = "err"
           ELSE /\ ret' = "nil"
                /\ manifest' =
                      IF app > 0
                      THEN [manifest EXCEPT
                               ![app].descriptorVersion = OwnerObjs[o].version,
                               ![app].assemblyPhase = assemblyPhase]
                      ELSE manifest
        /\ runs' = runs + 1
        /\ UNCHANGED <<snap, unique>>

\* uniqueGroupVersionKind(objects), called on the object set
CallUniqueGroupVersionKind ==
    LET c == [fn |-> "uniqueGroupVersionKind"]
    IN  /\ runs = 0
        /\ tcall' = c
        /\ unique' \in UniqueGroupVersionKind(manifest)
        /\ runs' = runs + 1
        /\ UNCHANGED <<manifest, snap, ret>>

\* an object set fresh from the manifest; snap keeps it as parsed
InitT ==
    /\ RegInit
    /\ manifest \in ObjectSets
    /\ snap = manifest
    /\ tcall = [fn |-> "none"]
    /\ ret = "none"
    /\ runs = 0
    /\ unique = <<>>
    /\ OptIdle

\* one transform is applied to the object set, then once more to its own output
NextT ==
    \/ \E r \in Registries, sec \in Secrets :
          ApplyImageRegistry(r, sec) /\ UNCHANGED <<regVars, optVars>>
    \/ \E o \in Owners : TransformApplication(o) /\ UNCHANGED <<regVars, optVars>>
    \/ \E o \in Owners : TransformApplicationFromStatus(o) /\ UNCHANGED <<regVars, optVars>>
    \/ CallUniqueGroupVersionKind /\ UNCHANGED <<regVars, optVars>>

SpecT == InitT /\ [][NextT]_vars

\* the options of a reconciler are folded over the zero params
SpecOpt == Init /\ [][NextOpt]_vars

-----------------------------------------------------------------------------
(* Properties of the object transforms *)

AppCount(objs) == Cardinality({i \in 1..Len(objs) : IsApplication(objs[i])})

\* q lists the elements of S, each once
ListsOnce(q, S) == Range(q) = S /\ Len(q) = Cardinality(S)

\* C6: uniqueGroupVersionKind returns each distinct kind of the object set
\* exactly once, in ascending order of GroupVersionKind.String().
C6_UniqueSortedKinds ==
    tcall.fn = "uniqueGroupVersionKind" =>
        /\ ListsOnce(unique, KindsOf(manifest))
        /\ \A i, j \in 1..Len(unique) :
              i < j => StrLess(GVKString(unique[i]), GVKString(unique[j]))

GroupKindsOf(objs) == {[Group |-> objs[i].Group, Kind |-> objs[i].Kind] : i \in 1..Len(objs)}

\* metav1.GroupKind.String(): Kind, or Kind + "." + Group
GKString(gk) == IF gk.Group = <<>> THEN gk.Kind ELSE gk.Kind \o <<46>> \o gk.Group

\* C7: with exactly one Application in the object set, transformApplication
\* sets its spec.selector to the owner's labels and its
\* spec.componentGroupKinds to the sorted list of the distinct GroupKinds
\* (group and kind, no version) of the object set.
C7_ApplicationSynced ==
    (tcall.fn = "transformApplication" /\ AppCount(snap) = 1) =>
        LET app == manifest[CHOOSE i \in 1..Len(snap) : IsApplication(snap[i])]
            gks == app.componentGroupKinds
        IN  /\ app.selector = <<[matchLabels |-> LabelMaker(tcall.owner)]>>
            /\ ListsOnce(gks, GroupKindsOf(snap))
            /\ \A i, j \in 1..Len(gks) :
                  i < j => StrLess(GKString(gks[i]), GKString(gks[j]))

IsAppTransform == tcall.fn \in {"transformApplication", "TransformApplicationFromStatus"}

\* C8 as stated: with zero, or two or more, Applications in the object set both
\* Application transforms change nothing and return no error, for any owner.
C8_NoAppNoError ==
    (IsAppTransform /\ AppCount(snap) # 1) => (manifest = snap /\ ret = "nil")

\* C8: with zero, or two or more, Applications in the object set both
\* Application transforms change nothing, for any owner; transformApplication
\* returns nil, and TransformApplicationFromStatus returns nil when the owner
\* is a CommonObject and an error when it is not.
C8_NoAppNoMutation ==
    (IsAppTransform /\ AppCount(snap) # 1) =>
        /\ manifest = snap
        /\ ret = IF tcall.fn = "TransformApplicationFromStatus"
                    /\ ~OwnerObjs[tcall.owner].common
                 THEN "err" ELSE "nil"

\* both transforms met two Applications beside another object, and returned nil
C8_Witness ==
    /\ IsAppTransform
    /\ AppCount(snap) = 2
    /\ Len(snap) = 3
    /\ ret = "nil"
    /\ runs = 2

\* seg is what follows the last '/' of image (all of it when it has none)
IsLastSegment(seg, image) ==
    LET n == Len(image) - Len(seg)
    IN  /\ n >= 0
        /\ \A i \in 1..Len(seg) : seg[i] # 47 /\ seg[i] = image[n + i]
        /\ n > 0 => image[n] = 47

\* C9: with a registry, applyImageRegistry sets the image of every container
\* of every Deployment, DaemonSet, StatefulSet, Job and CronJob to the
\* registry, "/" and the last segment of the image ("myrepo/foo/bar:v1" under
\* "registry.example.com" becomes "registry.example.com/bar:v1"); objects of
\* other kinds stay as they were; with neither registry nor secret nothing
\* changes.
C9_ImageRegistry ==
    tcall.fn = "applyImageRegistry" =>
        /\ Len(manifest) = Len(snap)
        /\ (tcall.registry = <<>> /\ tcall.secret = "") => manifest = snap
        /\ \A i \in 1..Len(snap) :
              IF snap[i].Kind \in {S_Deployment, S_DaemonSet, S_StatefulSet, S_Job, S_CronJob}
              THEN /\ Len(manifest[i].containers) = Len(snap[i].containers)
                   /\ \A c \in 1..Len(snap[i].containers) :
                         LET old == snap[i].containers[c]
                             new == manifest[i].containers[c]
                         IN  /\ tcall.registry = <<>> => new = old
                             /\ tcall.registry # <<>> =>
                                   \E n \in 0..Len(old) :
                                      LET seg == SubSeq(old, n + 1, Len(old))
                                      IN  /\ IsLastSegment(seg, old)
                                          /\ new = tcall.registry \o <<47>> \o seg
                             /\ (tcall.registry = S_registry /\ old = S_img_bar)
                                   => new = S_registry_bar
              ELSE manifest[i] = snap[i]

\* "myrepo/foo/bar:v1" was rewritten under "registry.example.com", next to a
\* ReplicaSet whose containers were left alone
C9_Witness ==
    /\ tcall.fn = "applyImageRegistry"
    /\ tcall.registry = S_registry
    /\ \E i \in 1..Len(snap) :
          /\ snap[i].Kind = S_Deployment
          /\ snap[i].containers[1] = S_img_bar
          /\ manifest[i].containers[1] = S_registry_bar
    /\ \E i \in 1..Len(snap) :
          /\ snap[i].Kind = S_ReplicaSet
          /\ manifest[i].containers = <<S_img_bar>>
    /\ \E i \in 1..Len(snap) : snap[i].Kind = S_CronJob

\* C10: applying a transform a second time, with the same configuration and
\* owner, to its own output leaves the object set as the first application
\* made it.
C10_Idempotent == [][runs' = 2 => manifest' = manifest]_vars

\* the index of the one Application of an object set that has exactly one
TheApp(objs) == CHOOSE i \in 1..Len(objs) : IsApplication(objs[i])

\* C12: with exactly one Application in the object set and an owner that is
\* a CommonObject, TransformApplicationFromStatus sets the Application's
\* spec.assemblyPhase to "Succeeded" if the owner's status is healthy and to
\* "Pending" if it is not, never to "Failed", and sets
\* spec.descriptor.version to the owner's spec version; with an owner that is
\* no CommonObject it returns an error and changes nothing.
C12_ApplicationFromStatus ==
    tcall.fn = "TransformApplicationFromStatus" =>
        LET owner == OwnerObjs[tcall.owner]
        IN  IF ~owner.common
            THEN ret = "err" /\ manifest = snap
            ELSE AppCount(snap) = 1 =>
                    LET app == manifest[TheApp(snap)]
                    IN  /\ ret = "nil"
                        /\ app.assemblyPhase = "Succeeded" <=> owner.healthy
                        /\ app.assemblyPhase = "Pending" <=> ~owner.healthy
                        /\ app.assemblyPhase # "Failed"
                        /\ app.descriptorVersion = owner.version

\* an Application whose phase was "Failed", beside two other objects, was
\* brought to "Pending" and version "2.0" for the unhealthy owner
C12_Witness ==
    /\ tcall.fn = "TransformApplicationFromStatus"
    /\ OwnerObjs[tcall.owner].common /\ ~OwnerObjs[tcall.owner].healthy
    /\ AppCount(snap) = 1
    /\ Len(snap) = 3
    /\ snap[TheApp(snap)].assemblyPhase = "Failed"
    /\ manifest[TheApp(snap)].assemblyPhase = "Pending"
    /\ manifest[TheApp(snap)].descriptorVersion = "2.0"

\* C13: with a secret name, applyImageRegistry sets the imagePullSecrets of the
\* pod spec of every Deployment, DaemonSet, StatefulSet, Job and CronJob to
\* the list of the one entry {name: secret}, whatever list was there before;
\* with no registry it leaves every container image as it was.
C13_ImagePullSecret ==
    tcall.fn = "applyImageRegistry" =>
        /\ Len(manifest) = Len(snap)
        /\ tcall.secret # "" =>
              \A i \in 1..Len(snap) :
                 snap[i].Kind \in {S_Deployment, S_DaemonSet, S_StatefulSet, S_Job, S_CronJob}
                    => manifest[i].imagePullSecrets = <<[name |-> tcall.secret]>>
        /\ tcall.registry = <<>> =>
              \A i \in 1..Len(snap) : manifest[i].containers = snap[i].containers

\* a secret and no registry: a Deployment's two pull secrets were replaced by
\* the one, a Job that had none got it, and the images are as they were
C13_Witness ==
    /\ tcall.fn = "applyImageRegistry"
    /\ tcall.secret = "regcred"
    /\ tcall.registry = <<>>
    /\ \E i \in 1..Len(snap) :
          /\ snap[i].Kind = S_Deployment
          /\ Len(snap[i].imagePullSecrets) = 2
          /\ manifest[i].imagePullSecrets = <<[name |-> "regcred"]>>
          /\ manifest[i].containers = <<S_img_bar, S_img_nginx>>
    /\ \E i \in 1..Len(snap) :
          /\ snap[i].Kind = S_Job
          /\ snap[i].imagePullSecrets = <<>>
          /\ manifest[i].imagePullSecrets = <<[name |-> "regcred"]>>

\* C15: transformApplication changes nothing but spec.selector and
\* spec.componentGroupKinds of the one Application: its other fields, every
\* other object, and the number and order of the items stay as they were.
C15_TransformApplicationFrame ==
    tcall.fn = "transformApplication" =>
        /\ Len(manifest) = Len(snap)
        /\ \A i \in 1..Len(snap) :
              IF AppCount(snap) = 1 /\ i = TheApp(snap)
              THEN [manifest[i] EXCEPT
                       !.selector = snap[i].selector,
                       !.componentGroupKinds = snap[i].componentGroupKinds] = snap[i]
              ELSE manifest[i] = snap[i]

\* the Application, between two other objects, got its selector and kinds,
\* and kept its version and phase
C15_Witness ==
    /\ tcall.fn = "transformApplication"
    /\ AppCount(snap) = 1
    /\ Len(snap) = 3
    /\ TheApp(snap) = 2
    /\ manifest[2].selector = <<[matchLabels |-> LabelMaker(tcall.owner)]>>
    /\ Len(manifest[2].componentGroupKinds) = 3
    /\ manifest[2].assemblyPhase = "Failed"
    /\ manifest[2].descriptorVersion = "0.0"
    /\ manifest[1] = snap[1] /\ manifest[3] = snap[3]

-----------------------------------------------------------------------------
(* Properties of the reconciler options *)

\* the arguments of the options of q named in names, concatenated in order;
\* an option named in single contributes the one function made of its argument
RECURSIVE Supplied(_, _, _)
Supplied(q, names, single) ==
    IF q = <<>> THEN <<>>
    ELSE (IF Head(q).name \in names THEN Head(q).arg
          ELSE IF Head(q).name \in single
               THEN <<[fn |-> "transformApplication", labelMaker |-> Head(q).arg]>>
          ELSE <<>>)
         \o Supplied(Tail(q), names, single)

\* the argument of the last option of q named name, or none when there is no such
LastArg(q, name, none) ==
    LET I == {i \in 1..Len(q) : q[i].name = name}
    IN  IF I = {} THEN none
        ELSE q[CHOOSE i \in I : \A j \in I : j <= i].arg

\* the options other than the two chains and the group-version-kind
SettingNames == {"WithApplyPrune", "WithPreserveNamespace", "WithOwner",
                 "WithLabels", "WithStatus", "WithManifestController"}

SettingOptions == {o \in Options : o.name \in SettingNames}

\* q without the items that repeat the item just before them
RECURSIVE Squeeze(_)
Squeeze(q) ==
    IF Len(q) <= 1 THEN q
    ELSE IF q[1] = q[2] THEN Squeeze(Tail(q))
    ELSE <<q[1]>> \o Squeeze(Tail(q))

RECURSIVE Fold(_, _)
Fold(q, p) == IF q = <<>> THEN p ELSE Fold(Tail(q), ApplyOption(Head(q), p))

\* C11: after any sequence of options, rawManifestOperations and
\* objectTransformations are the concatenation of the operations supplied, in
\* the order the options were applied, WithManagedApplication's transform
\* standing at that option's position; groupVersionKind is the argument of the
\* last WithGroupVersionKind; and each other option (prune, preserve
\* namespace, owner, labels, status, manifest controller) applied again with
\* the same argument leaves the params as one application made them.
C11_OptionsFold ==
    /\ params.rawManifestOperations
          = Supplied(applied, {"WithRawManifestOperation"}, {})
    /\ params.objectTransformations
          = Supplied(applied, {"WithObjectTransform"}, {"WithManagedApplication"})
    /\ params.groupVersionKind = LastArg(applied, "WithGroupVersionKind", "nil")
    /\ \A opt \in SettingOptions :
          ApplyOption(opt, ApplyOption(opt, params)) = ApplyOption(opt, params)
    /\ (\A i \in 1..Len(applied) : applied[i].name \in SettingNames)
          => params = Fold(Squeeze(applied), ZeroParams)

\* two chains of transforms with WithManagedApplication between them, then a
\* second group-version-kind after a first
C11_Witness ==
    /\ Len(applied) = 4
    /\ applied[1].name = "WithObjectTransform" /\ Len(applied[1].arg) = 2
    /\ applied[2].name = "WithManagedApplication" /\ applied[2].arg = "srcLabels"
    /\ applied[3].name = "WithObjectTransform" /\ Len(applied[3].arg) = 1
    /\ applied[4].name = "WithRawManifestOperation" /\ Len(applied[4].arg) = 2
    /\ params.objectTransformations =
          <<Transform("TransformApplicationFromStatus"), Transform("AddLabels"),
            [fn |-> "transformApplication", labelMaker |-> "srcLabels"],
            Transform("AddLabels")>>
    /\ params.rawManifestOperations = <<"rawA", "rawB">>

\* the same label maker set twice, around a second group-version-kind
C11_WitnessRepeat ==
    /\ Len(applied) = 4
    /\ applied[1].name = "WithGroupVersionKind" /\ applied[1].arg = "Dashboard"
    /\ applied[2].name = "WithLabels" /\ applied[2].arg = "srcLabels"
    /\ applied[3].name = "WithGroupVersionKind" /\ applied[3].arg = "Guestbook"
    /\ applied[4].name = "WithLabels" /\ applied[4].arg = "srcLabels"
    /\ params = [ZeroParams EXCEPT !.groupVersionKind = "Guestbook",
                                    !.labelMaker = "srcLabels"]

=============================================================================
